---- MODULE Spec2Model ----
(***************************************************************************)
(* PKCE utilities (rmg-dev-br/pkce-utils): the client side of the OAuth    *)
(* 2.0 authorization-code flow with PKCE.                                   *)
(*                                                                         *)
(* Strings are sequences of one-character strings, so that concatenation,  *)
(* serialisation and parsing are computed and not assumed.                 *)
(***************************************************************************)
EXTENDS Integers, Sequences, FiniteSets, TLC

(***************************************************************************)
(* Bounds of the model.                                                    *)
(***************************************************************************)
\* number of bytes of a digest (32 for SHA-256; 2 leaves the same remainder
\* modulo 3, so the base64 text ends in one padding character as well)
DigestLen == 2
\* number of invocations (redirectToLogin, handleCallback) in flight together
MaxInFlight == 2
\* the longest byte sequence given to the encoder applied on its own
MaxBytes == 3

(***************************************************************************)
(* Characters.                                                             *)
(***************************************************************************)
\* the printable ASCII characters, code 32 (space) to code 126 (~); the double
\* quote, the backslash and the backtick are written by name
Ascii ==
  << " ", "!", "QUOTE", "#", "$", "%", "&", "'", "(", ")", "*", "+", ",", "-", ".", "/",
     "0", "1", "2", "3", "4", "5", "6", "7", "8", "9", ":", ";", "<", "=", ">", "?",
     "@", "A", "B", "C", "D", "E", "F", "G", "H", "I", "J", "K", "L", "M", "N", "O",
     "P", "Q", "R", "S", "T", "U", "V", "W", "X", "Y", "Z", "[", "BACKSLASH", "]", "^", "_",
     "BACKTICK", "a", "b", "c", "d", "e", "f", "g", "h", "i", "j", "k", "l", "m", "n", "o",
     "p", "q", "r", "s", "t", "u", "v", "w", "x", "y", "z", "{", "|", "}", "~" >>

AsciiCode == [c \in {Ascii[i] : i \in 1..Len(Ascii)} |->
                31 + (CHOOSE i \in 1..Len(Ascii) : Ascii[i] = c)]

\* String.prototype.charCodeAt of a one-character string
CharCode(c) == AsciiCode[c]

HexDigits == << "0", "1", "2", "3", "4", "5", "6", "7",
                "8", "9", "a", "b", "c", "d", "e", "f" >>

RECURSIVE Concat(_)
\* the concatenation of a sequence of strings
Concat(ss) == IF ss = << >> THEN << >> ELSE Head(ss) \o Concat(Tail(ss))

RECURSIVE Join(_, _)
\* Array.prototype.join
Join(ss, sep) ==
  IF ss = << >> THEN << >>
  ELSE IF Len(ss) = 1 THEN ss[1]
  ELSE ss[1] \o sep \o Join(Tail(ss), sep)

RECURSIVE NumberToString(_)
\* Number.prototype.toString of a non-negative integer (decimal)
NumberToString(n) ==
  IF n < 10 THEN << HexDigits[n + 1] >>
  ELSE NumberToString(n \div 10) \o << HexDigits[(n % 10) + 1] >>

\* TextEncoder.encode on ASCII text: one byte per character
TextEncode(s) == [i \in 1..Len(s) |-> CharCode(s[i])]

(***************************************************************************)
(* crypto.utils.ts                                                         *)
(***************************************************************************)
RECURSIVE DigestAcc(_, _)
\* The hash collaborator (crypto.subtle.digest) is outside the repository.
\* It is represented by a deterministic mixing function onto DigestLen bytes.
DigestAcc(bytes, acc) ==
  IF bytes = << >> THEN acc
  ELSE DigestAcc(Tail(bytes), (acc * 31 + Head(bytes) + 7) % (256 ^ DigestLen))

Digest(bytes) ==
  LET h == DigestAcc(bytes, 5381 % (256 ^ DigestLen))
  IN  [i \in 1..DigestLen |-> (h \div (256 ^ (DigestLen - i))) % 256]

\* sha256(value) = crypto.subtle.digest(SHA-256, new TextEncoder().encode(value))
sha256(value) == Digest(TextEncode(value))

\* b.toString(16).padStart(2, 0)
ByteToHex(b) == << HexDigits[(b \div 16) + 1], HexDigits[(b % 16) + 1] >>

\* crypto.getRandomValues(new Uint32Array(4)): the arrays the source returns
\* in the model; every draw may return either of them
RandomArrays == { << 7, 1, 8, 2 >>, << 3, 1, 4, 1 >> }

\* TypedArray.prototype.toString: the elements in decimal, joined by ","
TypedArrayToString(arr) == Join([i \in 1..Len(arr) |-> NumberToString(arr[i])], << "," >>)

\* generateNonce, given the array the random source returned
generateNonce(random) ==
  LET hash == sha256(TypedArrayToString(random))
      hashArray == hash
  IN  Concat([i \in 1..Len(hashArray) |-> ByteToHex(hashArray[i])])

Base64Alphabet ==
  << "A", "B", "C", "D", "E", "F", "G", "H", "I", "J", "K", "L", "M", "N", "O", "P",
     "Q", "R", "S", "T", "U", "V", "W", "X", "Y", "Z", "a", "b", "c", "d", "e", "f",
     "g", "h", "i", "j", "k", "l", "m", "n", "o", "p", "q", "r", "s", "t", "u", "v",
     "w", "x", "y", "z", "0", "1", "2", "3", "4", "5", "6", "7", "8", "9", "+", "/" >>

RECURSIVE btoa(_)
\* window.btoa on a binary string, given as the code units of its characters
btoa(binary) ==
  LET n == Len(binary)
      B64(k) == Base64Alphabet[k + 1]
  IN  IF n = 0 THEN << >>
      ELSE IF n = 1 THEN
        << B64(binary[1] \div 4), B64((binary[1] % 4) * 16), "=", "=" >>
      ELSE IF n = 2 THEN
        << B64(binary[1] \div 4),
           B64((binary[1] % 4) * 16 + binary[2] \div 16),
           B64((binary[2] % 16) * 4), "=" >>
      ELSE
        << B64(binary[1] \div 4),
           B64((binary[1] % 4) * 16 + binary[2] \div 16),
           B64((binary[2] % 16) * 4 + binary[3] \div 64),
           B64(binary[3] % 64) >> \o btoa(SubSeq(binary, 4, n))

\* String.prototype.replace(/c/g, d) for a one-character pattern
ReplaceAll(s, c, d) == [i \in 1..Len(s) |-> IF s[i] = c THEN d ELSE s[i]]

RECURSIVE StripTrailing(_, _)
\* String.prototype.replace(/c+$/, empty)
StripTrailing(s, c) ==
  IF s # << >> /\ s[Len(s)] = c THEN StripTrailing(SubSeq(s, 1, Len(s) - 1), c) ELSE s

\* (mutant) the output of btoa is returned as it is
arrayBufferToBase64_Standard(buffer) ==
  LET bytes == buffer
      binary == [i \in 1..Len(bytes) |-> bytes[i]]
  IN  btoa(binary)

\* arrayBufferToBase64: String.fromCharCode maps each byte to the character
\* with that code unit, which btoa reads back as the same byte
arrayBufferToBase64(buffer) ==
  LET bytes == buffer
      binary == [i \in 1..Len(bytes) |-> bytes[i]]
  IN  StripTrailing(ReplaceAll(ReplaceAll(btoa(binary), "+", "-"), "/", "_"), "=")

\* The decoder the round trip is stated with: unpadded base64url back to
\* bytes.  It is not part of the repository.
Base64Value(c) == CHOOSE k \in 0..63 : Base64Alphabet[k + 1] = c

RECURSIVE atob(_)
\* the bytes of an unpadded standard base64 text
atob(text) ==
  LET n == Len(text)
      V(i) == Base64Value(text[i])
  IN  IF n < 2 THEN << >>
      ELSE IF n = 2 THEN << V(1) * 4 + V(2) \div 16 >>
      ELSE IF n = 3 THEN
        << V(1) * 4 + V(2) \div 16, (V(2) % 16) * 16 + V(3) \div 4 >>
      ELSE
        << V(1) * 4 + V(2) \div 16, (V(2) % 16) * 16 + V(3) \div 4,
           (V(3) % 4) * 64 + V(4) >> \o atob(SubSeq(text, 5, n))

base64urlDecode(text) == atob(ReplaceAll(ReplaceAll(text, "-", "+"), "_", "/"))

(***************************************************************************)
(* The string literals of the source.                                      *)
(***************************************************************************)
Str_response_type == << "r", "e", "s", "p", "o", "n", "s", "e", "_", "t", "y", "p", "e" >>
Str_code == << "c", "o", "d", "e" >>
Str_scope == << "s", "c", "o", "p", "e" >>
Str_state == << "s", "t", "a", "t", "e" >>
Str_client_id == << "c", "l", "i", "e", "n", "t", "_", "i", "d" >>
Str_code_challenge == << "c", "o", "d", "e", "_", "c", "h", "a", "l", "l", "e", "n", "g", "e" >>
Str_code_challenge_method == << "c", "o", "d", "e", "_", "c", "h", "a", "l", "l", "e", "n", "g", "e", "_", "m", "e", "t", "h", "o", "d" >>
Str_S256 == << "S", "2", "5", "6" >>
Str_redirect_uri == << "r", "e", "d", "i", "r", "e", "c", "t", "_", "u", "r", "i" >>
Str_logout_uri == << "l", "o", "g", "o", "u", "t", "_", "u", "r", "i" >>
Str_grant_type == << "g", "r", "a", "n", "t", "_", "t", "y", "p", "e" >>
Str_authorization_code == << "a", "u", "t", "h", "o", "r", "i", "z", "a", "t", "i", "o", "n", "_", "c", "o", "d", "e" >>
Str_code_verifier == << "c", "o", "d", "e", "_", "v", "e", "r", "i", "f", "i", "e", "r" >>
\* the default of redirectToLogin's path
Str_login_path == << "/", "l", "o", "g", "i", "n" >>
\* the default of redirectToLogin's scope
Str_openid == << "o", "p", "e", "n", "i", "d" >>
\* the default of redirectToLogout's path
Str_logout_path == << "/", "l", "o", "g", "o", "u", "t" >>
Str_token_path == << "/", "o", "a", "u", "t", "h", "2", "/", "t", "o", "k", "e", "n" >>

(***************************************************************************)
(* The host's URL primitives: URLSearchParams, URL, location.search.       *)
(***************************************************************************)
\* the JavaScript value null where a string is expected: no string of
\* characters equals it
null == << "null" >>

UpperHexDigits == << "0", "1", "2", "3", "4", "5", "6", "7",
                     "8", "9", "A", "B", "C", "D", "E", "F" >>

IsAlphaNum(c) ==
  \/ CharCode(c) \in 48..57
  \/ CharCode(c) \in 65..90
  \/ CharCode(c) \in 97..122

\* the application/x-www-form-urlencoded serialisation of one character
FormEncodeChar(c) ==
  IF IsAlphaNum(c) \/ c \in {"*", "-", ".", "_"} THEN << c >>
  ELSE IF c = " " THEN << "+" >>
  ELSE << "%", UpperHexDigits[(CharCode(c) \div 16) + 1],
               UpperHexDigits[(CharCode(c) % 16) + 1] >>

FormEncode(s) == Concat([i \in 1..Len(s) |-> FormEncodeChar(s[i])])

\* new URLSearchParams(record).toString(), the record given as its entries
URLSearchParamsToString(entries) ==
  Join([i \in 1..Len(entries) |->
          FormEncode(entries[i][1]) \o << "=" >> \o FormEncode(entries[i][2])],
       << "&" >>)

\* the index of the first occurrence of character c in s at or after from, 0 if none
IndexOf(s, c, from) ==
  IF \E i \in from..Len(s) : s[i] = c
  THEN CHOOSE i \in from..Len(s) : s[i] = c /\ \A k \in from..(i - 1) : s[k] # c
  ELSE 0

RECURSIVE Split(_, _)
\* String.prototype.split on a one-character separator
Split(s, c) ==
  LET i == IndexOf(s, c, 1)
  IN  IF i = 0 THEN << s >>
      ELSE << SubSeq(s, 1, i - 1) >> \o Split(SubSeq(s, i + 1, Len(s)), c)

HexValue(c) ==
  IF CharCode(c) \in 48..57 THEN CharCode(c) - 48
  ELSE IF CharCode(c) \in 65..70 THEN CharCode(c) - 55
  ELSE IF CharCode(c) \in 97..102 THEN CharCode(c) - 87
  ELSE -1

RECURSIVE PercentDecode(_)
\* percent-decoding of ASCII text; a "%" not followed by two hex digits is kept
PercentDecode(s) ==
  IF s = << >> THEN << >>
  ELSE IF /\ s[1] = "%"
          /\ Len(s) >= 3
          /\ HexValue(s[2]) >= 0
          /\ HexValue(s[3]) >= 0
          /\ HexValue(s[2]) * 16 + HexValue(s[3]) \in 32..126
       THEN << Ascii[HexValue(s[2]) * 16 + HexValue(s[3]) - 31] >>
              \o PercentDecode(SubSeq(s, 4, Len(s)))
       ELSE << s[1] >> \o PercentDecode(Tail(s))

FormDecode(s) == PercentDecode(ReplaceAll(s, "+", " "))

\* new URLSearchParams(search): the list of decoded name/value pairs
URLSearchParamsParse(search) ==
  LET query == IF search # << >> /\ search[1] = "?" THEN Tail(search) ELSE search
      parts == SelectSeq(Split(query, "&"), LAMBDA part : part # << >>)
      Pair(part) ==
        LET i == IndexOf(part, "=", 1)
        IN  IF i = 0 THEN << FormDecode(part), << >> >>
            ELSE << FormDecode(SubSeq(part, 1, i - 1)),
                    FormDecode(SubSeq(part, i + 1, Len(part))) >>
  IN  [k \in 1..Len(parts) |-> Pair(parts[k])]

\* URLSearchParams.prototype.get: the first value of the name, or null
URLSearchParamsGet(params, name) ==
  IF \E k \in 1..Len(params) : params[k][1] = name
  THEN params[CHOOSE k \in 1..Len(params) :
                /\ params[k][1] = name
                /\ \A m \in 1..(k - 1) : params[m][1] # name][2]
  ELSE null

\* the origin (scheme://host) of an absolute URL
Origin(url) ==
  LET a == IndexOf(url, "/", 1)
      b == IF a = 0 THEN 0 ELSE IndexOf(url, "/", a + 2)
  IN  IF b = 0 THEN url ELSE SubSeq(url, 1, b - 1)

\* new URL(path, base).toString() after url.search = search, for a path that
\* starts with "/": the path replaces the base's path
URLToString(path, base, search) ==
  Origin(base) \o path \o (IF search = << >> THEN << >> ELSE << "?" >> \o search)

\* window.location.search of the page at href
LocationSearch(href) ==
  LET q == IndexOf(href, "?", 1)
      h == IndexOf(href, "#", 1)
      end == IF h = 0 THEN Len(href) ELSE h - 1
  IN  IF q = 0 \/ (h # 0 /\ h < q) \/ q = end THEN << >>
      ELSE SubSeq(href, q, end)

\* s contains t as a substring
Contains(s, t) ==
  \E i \in 1..(Len(s) - Len(t) + 1) : SubSeq(s, i, i + Len(t) - 1) = t

(***************************************************************************)
(* JSON values, schemas.ts and the validation module.                      *)
(***************************************************************************)
JUndefined == [kind |-> "undefined"]
JNull == [kind |-> "null"]
JString(s) == [kind |-> "string", value |-> s]
\* a number, given by its decimal text
JNumber(n) == [kind |-> "number", value |-> n]
JObject(fields) == [kind |-> "object", fields |-> fields]
\* the empty array
JArray == [kind |-> "array", fields |-> << >>]

\* (mutant) typeof with a numeric string taken for a number
typeof_Coercing(v) ==
  IF v.kind \in {"null", "array"} THEN "object"
  ELSE IF v = [kind |-> "string", value |-> "60"] THEN "number"
  ELSE v.kind
\* the typeof operator
typeof(v) == IF v.kind \in {"null", "array"} THEN "object" ELSE v.kind

\* property access input.key on an object: undefined when the key is absent
Prop(v, key) == IF key \in DOMAIN v.fields THEN v.fields[key] ELSE JUndefined

\* a thrown value
Error(name, message) == [name |-> name, message |-> message]

Returned(value) == [status |-> "returned", value |-> value]
Threw(error) == [status |-> "threw", value |-> error]
Pending == [status |-> "pending", value |-> JUndefined]

\* (mutant) refresh_token is not looked at
validateAuth_NoRefreshToken(input) ==
  IF typeof(input) # "object" \/ input = JNull
    THEN Threw(Error("Error", << "Input must be a non-null object" >>))
  ELSE IF typeof(Prop(input, "access_token")) # "string"
    THEN Threw(Error("Error", << "access_token must be a string" >>))
  ELSE IF typeof(Prop(input, "expires_in")) # "number"
    THEN Threw(Error("Error", << "expires_in must be a number" >>))
  ELSE IF typeof(Prop(input, "id_token")) # "string"
    THEN Threw(Error("Error", << "id_token must be a string" >>))
  ELSE IF Prop(input, "token_type") # JString("Bearer")
    THEN Threw(Error("Error", << "token_type must be 'Bearer'" >>))
  ELSE Returned(input)

\* (mutant) expires_in is returned as text
validateAuth_Coercing(input) ==
  IF validateAuth_NoRefreshToken(input).status = "threw"
       \/ typeof(Prop(input, "refresh_token")) # "string"
    THEN Threw(Error("Error", << "Input must be a non-null object" >>))
  ELSE Returned([input EXCEPT !.fields["expires_in"].kind = "string"])

\* validateAuth: returns the input itself or throws
validateAuth(input) ==
  IF typeof(input) # "object" \/ input = JNull
    THEN Threw(Error("Error", << "Input must be a non-null object" >>))
  ELSE IF typeof(Prop(input, "access_token")) # "string"
    THEN Threw(Error("Error", << "access_token must be a string" >>))
  ELSE IF typeof(Prop(input, "expires_in")) # "number"
    THEN Threw(Error("Error", << "expires_in must be a number" >>))
  ELSE IF typeof(Prop(input, "id_token")) # "string"
    THEN Threw(Error("Error", << "id_token must be a string" >>))
  ELSE IF typeof(Prop(input, "refresh_token")) # "string"
    THEN Threw(Error("Error", << "refresh_token must be a string" >>))
  ELSE IF Prop(input, "token_type") # JString("Bearer")
    THEN Threw(Error("Error", << "token_type must be 'Bearer'" >>))
  ELSE Returned(input)

\* schemas.ts: the keys of authSchema, in the order of the declaration
SchemaKeys == << "access_token", "expires_in", "id_token", "refresh_token", "token_type" >>

\* z.string(), z.number() and z.enum([Bearer]) on the value of a key
\* (a value read from JSON is never NaN)
SchemaAccepts(key, v) ==
  IF key = "expires_in" THEN typeof(v) = "number"
  ELSE IF key = "token_type" THEN v = JString("Bearer")
  ELSE typeof(v) = "string"

\* authSchema.safeParse: z.object accepts plain objects only; on success
\* data is a new object holding the keys of the schema and no other; on
\* failure there is one issue per key that does not fit, given by its path
authSchemaSafeParse(input) ==
  LET Rejected(key) == ~SchemaAccepts(key, Prop(input, key))
      paths == SelectSeq(SchemaKeys, Rejected)
      keys == {SchemaKeys[n] : n \in DOMAIN SchemaKeys}
  IN  IF input.kind # "object"
        THEN [success |-> FALSE, data |-> JUndefined, issues |-> << [path |-> << >>] >>]
      ELSE IF paths # << >>
        THEN [success |-> FALSE, data |-> JUndefined,
              issues |-> [n \in 1..Len(paths) |-> [path |-> << paths[n] >>]]]
      ELSE [success |-> TRUE, data |-> JObject([k \in keys |-> input.fields[k]]),
            issues |-> << >>]

\* zod.utils.ts, flattenIssues: the issues numbered from 1, each with its path
\* (the text zod gives an issue is left out)
flattenIssues(issues) == [n \in 1..Len(issues) |-> [index |-> n, path |-> issues[n].path]]

(***************************************************************************)
(* The inputs of the model: the caller's parameters, the callback URLs the *)
(* identity provider (or anyone else) can send the browser to, and the     *)
(* answers of the token endpoint.                                          *)
(***************************************************************************)
IdpUrls == { << "h", "t", "t", "p", "s", ":", "/", "/", "i", "d", "p" >> }
ClientIds == { << "a", "p", "p" >> }
RedirectUris == { << "h", "t", "t", "p", "s", ":", "/", "/", "a", "/", "c", "b" >> }
LogoutUris == { << "h", "t", "t", "p", "s", ":", "/", "/", "a", "/", "o", "u", "t" >> }
\* scope and path are optional: undefined selects the default
Scopes == { << "a", " ", "b" >> }
Paths == { null }

LoginParams ==
  [idpUrl : IdpUrls, clientId : ClientIds, redirectUri : RedirectUris,
   path : Paths, scope : Scopes]
\* redirectToLogout is called without a path and with one
LogoutPaths == { null, << "/", "b", "y", "e" >> }
LogoutParams ==
  [idpUrl : IdpUrls, clientId : ClientIds, logoutUri : LogoutUris, path : LogoutPaths]
CallbackParams ==
  [idpUrl : IdpUrls, clientId : ClientIds, redirectUri : RedirectUris]

\* the page the application starts on
HomePage == << "h", "t", "t", "p", "s", ":", "/", "/", "a", "/" >>

\* the code parameter of a callback URL, as written in the URL: absent, or a
\* code with an escaped "&"
CodeParts == { << >>,
               << << "c", "o", "d", "e", "=", "x", "%", "2", "6", "y" >> >> }

\* the bodies the token endpoint may answer with: JSON texts, given by the
\* value they denote, and a text that is not JSON
AuthBody ==
  [json |-> TRUE,
   value |-> JObject([access_token |-> JString("at"), expires_in |-> JNumber("60"),
                      id_token |-> JString("it"), refresh_token |-> JString("rt"),
                      token_type |-> JString("Bearer")])]
MalformedBody ==
  [json |-> TRUE,
   value |-> JObject([access_token |-> JString("at"), expires_in |-> JString("60"),
                      id_token |-> JString("it"), refresh_token |-> JString("rt"),
                      token_type |-> JString("Bearer")])]
ErrorBody == [json |-> TRUE, value |-> JObject([error |-> JString("invalid_grant")])]
HtmlBody == [json |-> FALSE, value |-> JString("<html>Bad Gateway</html>")]

\* Response.ok is true for the statuses 200..299
Responses ==
  { [ok |-> TRUE, body |-> AuthBody], [ok |-> TRUE, body |-> MalformedBody],
    [ok |-> FALSE, body |-> ErrorBody], [ok |-> FALSE, body |-> HtmlBody] }
NoResponse == [ok |-> FALSE, body |-> [json |-> FALSE, value |-> JUndefined]]

\* The values a JSON body may denote, for the validators applied on their own:
\* values that are no plain object, and objects in which every key of the
\* Auth shape is absent, of the documented type or of another type, with or
\* without a key the shape does not name.
Absent == JUndefined
FieldValues ==
  [access_token |-> {Absent, JString("at"), JNumber("1")},
   expires_in |-> {Absent, JNumber("60"), JString("60"), JNull},
   id_token |-> {Absent, JString("it")},
   refresh_token |-> {JString("rt"), JNumber("2")},
   token_type |-> {Absent, JString("Bearer"), JString("bearer"), JNumber("3")},
   scope |-> {Absent, JString("openid")}]
RawObjects ==
  { JObject([k \in {key \in DOMAIN assignment : assignment[key] # Absent} |-> assignment[k]]) :
      assignment \in [access_token : FieldValues.access_token,
                      expires_in : FieldValues.expires_in,
                      id_token : FieldValues.id_token,
                      refresh_token : FieldValues.refresh_token,
                      token_type : FieldValues.token_type,
                      scope : FieldValues.scope] }
RawInputs == RawObjects \cup {JNull, JString("at"), JNumber("60"), JArray}

\* the answers of the token endpoint for exchangeCode applied on its own
TokenResponses ==
  [ok : BOOLEAN, body : {[json |-> TRUE, value |-> raw] : raw \in RawInputs} \cup {HtmlBody}]

(***************************************************************************)
(* index.ts: the pure parts.                                               *)
(***************************************************************************)
\* (mutant) the verifier is encoded without being hashed
getChallenge_Unhashed(random1, random2) ==
  LET state == generateNonce(random1)
      codeVerifier == generateNonce(random2)
  IN  [state |-> state,
       codeVerifier |-> codeVerifier,
       codeChallenge |-> arrayBufferToBase64(TextEncode(codeVerifier))]

\* (mutant) the challenge is derived from the state
getChallenge_StateHashed(random1, random2) ==
  LET state == generateNonce(random1)
      codeVerifier == generateNonce(random2)
  IN  [state |-> state,
       codeVerifier |-> codeVerifier,
       codeChallenge |-> arrayBufferToBase64(sha256(state))]

\* getChallenge, given the two arrays the random source returned
getChallenge(random1, random2) ==
  LET state == generateNonce(random1)
      codeVerifier == generateNonce(random2)
      codeChallenge == sha256(codeVerifier)
  IN  [state |-> state,
       codeVerifier |-> codeVerifier,
       codeChallenge |-> arrayBufferToBase64(codeChallenge)]

\* a parameter with a default value
Default(value, default) == IF value = null THEN default ELSE value

\* (mutant) the verifier is sent along with the challenge
LoginUrl_WithVerifier(params, challenge) ==
  LET path == Default(params.path, Str_login_path)
      scope == Default(params.scope, Str_openid)
      search == URLSearchParamsToString(<<
        << Str_response_type, Str_code >>,
        << Str_scope, scope >>,
        << Str_state, challenge.state >>,
        << Str_client_id, params.clientId >>,
        << Str_code_challenge, challenge.codeChallenge >>,
        << Str_code_verifier, challenge.codeVerifier >>,
        << Str_code_challenge_method, Str_S256 >>,
        << Str_redirect_uri, params.redirectUri >> >>)
  IN  URLToString(path, params.idpUrl, search)

\* the URL redirectToLogin assigns to window.location.href
LoginUrl(params, challenge) ==
  LET path == Default(params.path, Str_login_path)
      scope == Default(params.scope, Str_openid)
      search == URLSearchParamsToString(<<
        << Str_response_type, Str_code >>,
        << Str_scope, scope >>,
        << Str_state, challenge.state >>,
        << Str_client_id, params.clientId >>,
        << Str_code_challenge, challenge.codeChallenge >>,
        << Str_code_challenge_method, Str_S256 >>,
        << Str_redirect_uri, params.redirectUri >> >>)
  IN  URLToString(path, params.idpUrl, search)

\* the URL redirectToLogout assigns to window.location.href
LogoutUrl(params) ==
  LET path == Default(params.path, Str_logout_path)
  IN  params.idpUrl \o path \o << "?" >> \o Str_client_id \o << "=" >> \o params.clientId
        \o << "&" >> \o Str_logout_uri \o << "=" >> \o params.logoutUri

\* (mutant) code and codeVerifier change places
TokenRequest_Swapped(code, codeVerifier, idpUrl, clientId, redirectUri) ==
  LET entries == << << Str_grant_type, Str_authorization_code >>,
                    << Str_client_id, clientId >>,
                    << Str_code, codeVerifier >>,
                    << Str_code_verifier, code >>,
                    << Str_redirect_uri, redirectUri >> >>
  IN  [url |-> idpUrl \o Str_token_path,
       method |-> "POST",
       headers |-> { << "content-type", "application/x-www-form-urlencoded" >> },
       body |-> Join([i \in 1..Len(entries) |->
                        entries[i][1] \o << "=" >> \o entries[i][2]], << "&" >>)]

\* the request exchangeCode hands to fetch
TokenRequest(code, codeVerifier, idpUrl, clientId, redirectUri) ==
  LET entries == << << Str_grant_type, Str_authorization_code >>,
                    << Str_client_id, clientId >>,
                    << Str_code, code >>,
                    << Str_code_verifier, codeVerifier >>,
                    << Str_redirect_uri, redirectUri >> >>
  IN  [url |-> idpUrl \o Str_token_path,
       method |-> "POST",
       headers |-> { << "content-type", "application/x-www-form-urlencoded" >> },
       body |-> Join([i \in 1..Len(entries) |->
                        entries[i][1] \o << "=" >> \o entries[i][2]], << "&" >>)]

\* JSON.stringify of a JSON value: the JSON text that denotes it
JSONstringify(value) == [json |-> TRUE, value |-> value]

\* exchangeCode after res.json() resolved with rawData
ExchangeResult(res, rawData) ==
  IF ~res.ok
    THEN Threw(Error("Error", << "Error exchanging code: ", JSONstringify(rawData) >>))
    ELSE validateAuth(rawData)

\* the same step in the exchangeCode that validates with authSchema
ExchangeResultSchema(res, rawData) ==
  LET parsing == authSchemaSafeParse(rawData)
  IN  IF ~res.ok
        THEN Threw(Error("Error", << "Error exchanging code: ", JSONstringify(rawData) >>))
      ELSE IF ~parsing.success
        THEN Threw(Error("Error", << "Returned auth data does not conform to schema: ",
                                     flattenIssues(parsing.issues) >>))
      ELSE Returned(parsing.data)

\* exchangeCode from the moment fetch has resolved with res: res.json()
\* rejects when the body is not JSON, otherwise exchangeCode goes on with
\* the value it denotes
ExchangeSettled(res) ==
  IF res.body.json
    THEN ExchangeResult(res, res.body.value)
    ELSE Threw(Error("SyntaxError", << "Unexpected token in JSON" >>))

ExchangeSettledSchema(res) ==
  IF res.body.json
    THEN ExchangeResultSchema(res, res.body.value)
    ELSE Threw(Error("SyntaxError", << "Unexpected token in JSON" >>))

\* sessionStorage.getItem, setItem and removeItem on a store
getItem(store, key) == IF key \in DOMAIN store THEN store[key] ELSE null

\* (mutant) the store holds one entry, the last one written
setItem_Replacing(store, key, value) == [k \in {key} |-> value]
\* (mutant) the write is not done by the time the caller goes on
setItem_Deferred(store, key, value) == store
\* (mutant) key and value change places
setItem_Swapped(store, key, value) ==
  [k \in DOMAIN store \cup {value} |-> IF k = value THEN key ELSE store[k]]
setItem(store, key, value) ==
  [k \in DOMAIN store \cup {key} |-> IF k = key THEN value ELSE store[k]]

\* (mutant) the entry is left in the store
removeItem_Kept(store, key) == store
removeItem(store, key) == [k \in DOMAIN store \ {key} |-> store[k]]

\* (mutant) only the empty string counts
Falsy_EmptyOnly(s) == s = << >>
\* the falsy strings: null and the empty string
Falsy(s) == s = null \/ s = << >>

(***************************************************************************)
(* The state.                                                              *)
(***************************************************************************)
VARIABLES
  sessionStorage,  \* the session store: a function from keys to values
  location,        \* window.location: the href and what assigned it last
  login,           \* the redirectToLogin invocations
  callback,        \* the handleCallback invocations
  running,         \* the invocation inside a synchronous section, 0 if none
  audit,           \* history: the attempts a handleCallback has failed for
  argument,        \* the input of a function applied on its own
  result           \* what that function gave

vars == << sessionStorage, location, login, callback, running, audit, argument, result >>

\* the variables of the functions applied on their own
pure == << argument, result >>

\* the slots of the invocations in flight, of either kind
Slots == 1..MaxInFlight

NoChallenge == [state |-> << >>, codeVerifier |-> << >>, codeChallenge |-> << >>]
IdleLogin ==
  [pc |-> "idle", params |-> << >>, challenge |-> NoChallenge, outcome |-> Pending]
\* requests: the token requests in flight
\* attempt and afterFailure belong to the history: the state the invocation
\* read from the page, and whether an invocation for it had failed before
IdleCallback ==
  [pc |-> "idle", requests |-> << >>, res |-> NoResponse, outcome |-> Pending,
   attempt |-> << >>, afterFailure |-> FALSE]

\* The history of the login attempts, an attempt being identified by its
\* state: failed holds the attempts for which a handleCallback has failed
\* since redirectToLogin last stored a verifier under that state, and
\* consumed the attempts whose verifier a handleCallback has obtained since
\* then.  It is kept only when on is set, and no action reads it.
NoAudit == [on |-> FALSE, failed |-> {}, consumed |-> {}]
Failed(a, state) ==
  IF a.on /\ state # << >> /\ state # null THEN [a EXCEPT !.failed = @ \cup {state}] ELSE a
Consumed(a, state) == IF a.on THEN [a EXCEPT !.consumed = @ \cup {state}] ELSE a
Restarted(a, state) == [a EXCEPT !.failed = @ \ {state}, !.consumed = @ \ {state}]

Init ==
  /\ sessionStorage = << >>
  /\ location = [href |-> HomePage, by |-> "user"]
  /\ login = [i \in Slots |-> IdleLogin]
  /\ callback = [j \in Slots |-> IdleCallback]
  /\ running = 0
  /\ audit = NoAudit
  /\ argument = JUndefined
  /\ result = Pending

(***************************************************************************)
(* redirectToLogin.                                                        *)
(***************************************************************************)
\* No other invocation runs while one is inside a synchronous section.
Free == running = 0

InFlight ==
  Cardinality({i \in Slots : login[i].pc # "idle"})
    + Cardinality({j \in Slots : callback[j].pc # "idle"})

\* an invocation takes the lowest slot that is free
LowestIdle(slots, i) == slots[i].pc = "idle" /\ \A k \in 1..(i - 1) : slots[k].pc # "idle"

\* redirectToLogin is called and awaits getChallenge().
LoginCall(i, params) ==
  /\ Free
  /\ InFlight < MaxInFlight
  /\ LowestIdle(login, i)
  /\ login' = [login EXCEPT ![i] = [IdleLogin EXCEPT !.pc = "getChallenge", !.params = params]]
  /\ UNCHANGED << sessionStorage, location, callback, running, audit, argument, result >>

\* (mutant) the state is stored before the challenge is awaited
LoginChallengeFails_AfterWrite(i) ==
  /\ Free
  /\ login[i].pc = "getChallenge"
  /\ login' = [login EXCEPT
       ![i].pc = "done",
       ![i].params = << >>,
       ![i].outcome = Threw(Error("OperationError", << "digest failed" >>))]
  /\ \E challenge \in {getChallenge(random, random) : random \in RandomArrays} :
       sessionStorage' = setItem(sessionStorage, challenge.state, << >>)
  /\ UNCHANGED << location, callback, running, audit, argument, result >>

\* The hash collaborator fails: the rejection propagates out of getChallenge
\* and out of redirectToLogin.
LoginChallengeFails(i) ==
  /\ Free
  /\ login[i].pc = "getChallenge"
  /\ login' = [login EXCEPT
       ![i].pc = "done",
       ![i].params = << >>,
       ![i].outcome = Threw(Error("OperationError", << "digest failed" >>))]
  /\ UNCHANGED << sessionStorage, location, callback, running, audit, argument, result >>

\* the Challenges getChallenge can resolve with
Challenges ==
  { getChallenge(random1, random2) : random1 \in RandomArrays, random2 \in RandomArrays }

\* getChallenge resolves with a Challenge and redirectToLogin resumes:
\* sessionStorage.setItem(state, codeVerifier)
LoginPersist(i) ==
  /\ Free
  /\ login[i].pc = "getChallenge"
  /\ \E challenge \in Challenges :
       /\ sessionStorage' =
            setItem(sessionStorage, challenge.state, challenge.codeVerifier)
       /\ login' = [login EXCEPT ![i].pc = "stored", ![i].challenge = challenge]
       /\ audit' = Restarted(audit, challenge.state)
  /\ running' = i
  /\ UNCHANGED << location, callback, argument, result >>

\* ... and, in the same synchronous section, window.location.href = url.toString()
LoginNavigate(i) ==
  /\ running = i
  /\ login[i].pc = "stored"
  /\ location' = [href |-> LoginUrl(login[i].params, login[i].challenge),
                  by |-> "redirectToLogin"]
  /\ login' = [login EXCEPT
       ![i].pc = "done",
       ![i].params = << >>,
       ![i].challenge = NoChallenge,
       ![i].outcome = Returned(JUndefined)]
  /\ running' = 0
  /\ UNCHANGED << sessionStorage, callback, audit, argument, result >>

\* The caller has the result of redirectToLogin; the invocation is over.
LoginReturn(i) ==
  /\ Free
  /\ login[i].pc = "done"
  /\ login' = [login EXCEPT ![i] = IdleLogin]
  /\ UNCHANGED << sessionStorage, location, callback, running, audit, argument, result >>

(***************************************************************************)
(* redirectToLogout.                                                       *)
(***************************************************************************)
\* (mutant) the logout clears the session store
redirectToLogout_Clearing(params) ==
  /\ Free
  /\ location' = [href |-> LogoutUrl(params), by |-> "redirectToLogout"]
  /\ sessionStorage' = << >>
  /\ UNCHANGED << login, callback, running, audit, argument, result >>

redirectToLogout(params) ==
  /\ Free
  /\ location' = [href |-> LogoutUrl(params), by |-> "redirectToLogout"]
  /\ UNCHANGED << sessionStorage, login, callback, running, audit, argument, result >>

(***************************************************************************)
(* The identity provider (or anyone) sends the browser to the callback     *)
(* page with a query string of its choice.                                 *)
(***************************************************************************)
\* the state parameter of a callback URL, as written in the URL: absent,
\* empty, or any value a login attempt can generate
StateParts ==
  { << >>, << Str_state \o << "=" >> >> }
    \cup { << Str_state \o << "=" >> \o generateNonce(random) >> : random \in RandomArrays }

CallbackUrl(redirectUri, codePart, statePart) ==
  LET query == Join(codePart \o statePart, << "&" >>)
  IN  redirectUri \o (IF query = << >> THEN << >> ELSE << "?" >> \o query)

CallbackUrls ==
  { CallbackUrl(redirectUri, codePart, statePart) :
      redirectUri \in RedirectUris, codePart \in CodeParts, statePart \in StateParts }

Arrive ==
  /\ Free
  /\ \E url \in CallbackUrls : location' = [href |-> url, by |-> "idp"]
  /\ UNCHANGED << sessionStorage, login, callback, running, audit, argument, result >>

(***************************************************************************)
(* handleCallback and exchangeCode.                                        *)
(***************************************************************************)
\* the errors handleCallback throws itself
MissingParameterError == Error("Error", << "Missing state or code" >>)
MissingVerifierError == Error("Error", << "Missing state" >>)

\* (mutant) removeItem is given code instead of state
HandleCallbackSync_RemovesCode(search, store, params) ==
  LET queryString == URLSearchParamsParse(search)
      code == URLSearchParamsGet(queryString, Str_code)
      state == URLSearchParamsGet(queryString, Str_state)
      codeVerifier == getItem(store, state)
      untouched == [store |-> store, requests |-> << >>, outcome |-> Pending]
  IN  IF Falsy(state) \/ Falsy(code)
        THEN [untouched EXCEPT !.outcome = Threw(MissingParameterError)]
      ELSE IF Falsy(codeVerifier)
        THEN [untouched EXCEPT
                !.store = removeItem(store, code),
                !.outcome = Threw(MissingVerifierError)]
      ELSE [untouched EXCEPT
              !.store = removeItem(store, code),
              !.requests = << TokenRequest(code, codeVerifier, params.idpUrl,
                                           params.clientId, params.redirectUri) >>]

\* (mutant) the verifier read from the store is not tested
HandleCallbackSync_Unchecked(search, store, params) ==
  LET queryString == URLSearchParamsParse(search)
      code == URLSearchParamsGet(queryString, Str_code)
      state == URLSearchParamsGet(queryString, Str_state)
      codeVerifier == getItem(store, state)
      untouched == [store |-> store, requests |-> << >>, outcome |-> Pending]
  IN  IF Falsy(state) \/ Falsy(code)
        THEN [untouched EXCEPT !.outcome = Threw(MissingParameterError)]
      ELSE [untouched EXCEPT
              !.store = removeItem(store, state),
              !.requests = << TokenRequest(code, codeVerifier, params.idpUrl,
                                           params.clientId, params.redirectUri) >>]

\* (mutant) the entry is removed after the exchange, not before it
HandleCallbackSync_RemovesLater(search, store, params) ==
  LET queryString == URLSearchParamsParse(search)
      code == URLSearchParamsGet(queryString, Str_code)
      state == URLSearchParamsGet(queryString, Str_state)
      codeVerifier == getItem(store, state)
      untouched == [store |-> store, requests |-> << >>, outcome |-> Pending]
  IN  IF Falsy(state) \/ Falsy(code)
        THEN [untouched EXCEPT !.outcome = Threw(MissingParameterError)]
      ELSE IF Falsy(codeVerifier)
        THEN [untouched EXCEPT !.outcome = Threw(MissingVerifierError)]
      ELSE [untouched EXCEPT
              !.requests = << TokenRequest(code, codeVerifier, params.idpUrl,
                                           params.clientId, params.redirectUri) >>]

\* (mutant) the entry is removed before code and state are tested
HandleCallbackSync_RemovesFirst(search, store, params) ==
  LET queryString == URLSearchParamsParse(search)
      code == URLSearchParamsGet(queryString, Str_code)
      state == URLSearchParamsGet(queryString, Str_state)
      codeVerifier == getItem(store, state)
      removed == [store |-> removeItem(store, state), requests |-> << >>,
                  outcome |-> Pending]
  IN  IF Falsy(state) \/ Falsy(code)
        THEN [removed EXCEPT !.outcome = Threw(MissingParameterError)]
      ELSE IF Falsy(codeVerifier)
        THEN [removed EXCEPT !.outcome = Threw(MissingVerifierError)]
      ELSE [removed EXCEPT
              !.requests = << TokenRequest(code, codeVerifier, params.idpUrl,
                                           params.clientId, params.redirectUri) >>]

\* handleCallback up to its first await, which is the fetch of exchangeCode:
\* the outcome, the store it leaves and the request it issued, if any
HandleCallbackSync(search, store, params) ==
  LET queryString == URLSearchParamsParse(search)
      code == URLSearchParamsGet(queryString, Str_code)
      state == URLSearchParamsGet(queryString, Str_state)
      codeVerifier == getItem(store, state)
      untouched == [store |-> store, requests |-> << >>, outcome |-> Pending]
  IN  IF Falsy(state) \/ Falsy(code)
        THEN [untouched EXCEPT
                !.outcome = Threw(MissingParameterError)]
      ELSE IF Falsy(codeVerifier)
        THEN [untouched EXCEPT
                !.store = removeItem(store, state),
                !.outcome = Threw(MissingVerifierError)]
      ELSE [untouched EXCEPT
              !.store = removeItem(store, state),
              !.requests = << TokenRequest(code, codeVerifier, params.idpUrl,
                                           params.clientId, params.redirectUri) >>]

CallbackCall(j, params) ==
  /\ Free
  /\ InFlight < MaxInFlight
  /\ LowestIdle(callback, j)
  /\ LET search == LocationSearch(location.href)
         r == HandleCallbackSync(search, sessionStorage, params)
         state == URLSearchParamsGet(URLSearchParamsParse(search), Str_state)
         pending == r.outcome = Pending
     IN  /\ sessionStorage' = r.store
         /\ callback' = [callback EXCEPT ![j] =
              [pc |-> IF pending THEN "fetch" ELSE "done",
               requests |-> r.requests, res |-> NoResponse, outcome |-> r.outcome,
               attempt |-> IF audit.on /\ pending THEN state ELSE << >>,
               afterFailure |-> audit.on /\ pending /\ state \in audit.failed]]
         /\ audit' = IF pending THEN Consumed(audit, state) ELSE Failed(audit, state)
  /\ UNCHANGED << location, login, running, argument, result >>

\* fetch resolves with the token endpoint's answer; res.json() starts
FetchResolves(j, res) ==
  /\ Free
  /\ callback[j].pc = "fetch"
  /\ callback' = [callback EXCEPT ![j].pc = "json", ![j].requests = << >>, ![j].res = res]
  /\ UNCHANGED << sessionStorage, location, login, running, audit, argument, result >>

\* (mutant) a rejected fetch is tried once more
FetchRejects_Retries(j) ==
  /\ Free
  /\ callback[j].pc = "fetch"
  /\ callback' = [callback EXCEPT
       ![j].pc = IF Len(callback[j].requests) = 1 THEN "fetch" ELSE "done",
       ![j].requests = IF Len(callback[j].requests) = 1 THEN @ \o @ ELSE << >>,
       ![j].attempt = IF Len(callback[j].requests) = 1 THEN @ ELSE << >>,
       ![j].afterFailure = Len(callback[j].requests) = 1 /\ @,
       ![j].outcome = IF Len(callback[j].requests) = 1 THEN @
                      ELSE Threw(Error("TypeError", << "Failed to fetch" >>))]
  /\ audit' = IF Len(callback[j].requests) = 1 THEN audit
              ELSE Failed(audit, callback[j].attempt)
  /\ UNCHANGED << sessionStorage, location, login, running, argument, result >>

\* fetch rejects: the request could not be completed
FetchRejects(j) ==
  /\ Free
  /\ callback[j].pc = "fetch"
  /\ callback' = [callback EXCEPT
       ![j].pc = "done",
       ![j].requests = << >>,
       ![j].attempt = << >>,
       ![j].afterFailure = FALSE,
       ![j].outcome = Threw(Error("TypeError", << "Failed to fetch" >>))]
  /\ audit' = Failed(audit, callback[j].attempt)
  /\ UNCHANGED << sessionStorage, location, login, running, argument, result >>

\* (mutant) a body that is not JSON makes the exchange start over
JsonSettles_Refetches(j) ==
  /\ Free
  /\ callback[j].pc = "json"
  /\ callback' = [callback EXCEPT
       ![j].pc = IF callback[j].res.body.json THEN "done" ELSE "fetch",
       ![j].res = NoResponse,
       ![j].attempt = IF callback[j].res.body.json THEN << >> ELSE @,
       ![j].afterFailure = ~callback[j].res.body.json /\ @,
       ![j].outcome = IF callback[j].res.body.json
                        THEN ExchangeSettled(callback[j].res) ELSE @]
  /\ audit' = IF callback[j].res.body.json
                  /\ ExchangeSettled(callback[j].res).status = "threw"
                THEN Failed(audit, callback[j].attempt) ELSE audit
  /\ UNCHANGED << sessionStorage, location, login, running, argument, result >>

\* res.json() settles: it rejects when the body is not JSON; otherwise
\* exchangeCode goes on with rawData
JsonSettles(j) ==
  /\ Free
  /\ callback[j].pc = "json"
  /\ callback' = [callback EXCEPT
       ![j].pc = "done",
       ![j].res = NoResponse,
       ![j].attempt = << >>,
       ![j].afterFailure = FALSE,
       ![j].outcome = ExchangeSettled(callback[j].res)]
  /\ audit' = IF ExchangeSettled(callback[j].res).status = "threw"
                THEN Failed(audit, callback[j].attempt) ELSE audit
  /\ UNCHANGED << sessionStorage, location, login, running, argument, result >>

\* The caller has the result of handleCallback; the invocation is over.
CallbackReturn(j) ==
  /\ Free
  /\ callback[j].pc = "done"
  /\ callback' = [callback EXCEPT ![j] = IdleCallback]
  /\ UNCHANGED << sessionStorage, location, login, running, audit, argument, result >>

Next ==
  \/ \E i \in Slots, params \in LoginParams : LoginCall(i, params)
  \/ \E i \in Slots : LoginChallengeFails(i)
  \/ \E i \in Slots : LoginPersist(i)
  \/ \E i \in Slots : LoginNavigate(i)
  \/ \E i \in Slots : LoginReturn(i)
  \/ \E params \in LogoutParams : redirectToLogout(params)
  \/ Arrive
  \/ \E j \in Slots, params \in CallbackParams : CallbackCall(j, params)
  \/ \E j \in Slots, res \in Responses : FetchResolves(j, res)
  \/ \E j \in Slots : FetchRejects(j)
  \/ \E j \in Slots : JsonSettles(j)
  \/ \E j \in Slots : CallbackReturn(j)

Spec == Init /\ [][Next]_vars

\* The same program under the scheduling of a page.  The synchronous part of
\* redirectToLogin after its await (lines 270-283) runs to completion; the
\* token endpoint answers or fails every request it is sent (fetch, line
\* 350, and the reading of the body, line 364), and the continuation of a
\* settled promise is run by the event loop however often other calls run
\* in between.
\* the step that ends the synchronous section of invocation i (LoginNavigate
\* is the only action that takes it)
SectionEnds(i) == running = i /\ running' = 0

Fairness ==
  /\ \A i \in Slots : WF_running(SectionEnds(i))
  /\ \A j \in Slots :
       /\ SF_vars((\E res \in Responses : FetchResolves(j, res)) \/ FetchRejects(j))
       /\ SF_vars(JsonSettles(j))

SpecLive == Init /\ [][Next]_vars /\ Fairness

\* the same program, with the history of the attempts kept
InitAudit ==
  /\ sessionStorage = << >>
  /\ location = [href |-> HomePage, by |-> "user"]
  /\ login = [i \in Slots |-> IdleLogin]
  /\ callback = [j \in Slots |-> IdleCallback]
  /\ running = 0
  /\ audit = [NoAudit EXCEPT !.on = TRUE]
  /\ argument = JUndefined
  /\ result = Pending

SpecAudit == InitAudit /\ [][Next]_vars

(***************************************************************************)
(* exchangeCode and the validators applied on their own to an answer of    *)
(* the token endpoint: argument is the answer, result names what was       *)
(* applied and what it gave.  The browser state stays as constructed.      *)
(***************************************************************************)
AsConstructed ==
  /\ sessionStorage = << >>
  /\ location = [href |-> HomePage, by |-> "user"]
  /\ login = [i \in Slots |-> IdleLogin]
  /\ callback = [j \in Slots |-> IdleCallback]
  /\ running = 0
  /\ audit = NoAudit

flow == << sessionStorage, location, login, callback, running, audit >>

InitExchange ==
  /\ AsConstructed
  /\ argument \in TokenResponses
  /\ result = Pending

Applied(name, outcome) ==
  /\ result = Pending
  /\ result' = [applied |-> name, outcome |-> outcome]
  /\ UNCHANGED << flow, argument >>

\* exchangeCode of index.ts, after its fetch
ApplyExchangeCode == Applied("exchangeCode", ExchangeSettled(argument))
\* the exchangeCode that validates with authSchema, after its fetch
ApplyExchangeCodeSchema == Applied("exchangeCodeSchema", ExchangeSettledSchema(argument))
\* validateAuth on the value of a JSON body
ApplyValidateAuth ==
  /\ argument.body.json
  /\ Applied("validateAuth", validateAuth(argument.body.value))
\* authSchema.safeParse on the value of a JSON body
ApplySafeParse ==
  /\ argument.body.json
  /\ Applied("safeParse", authSchemaSafeParse(argument.body.value))

NextExchange ==
  \/ ApplyExchangeCode
  \/ ApplyExchangeCodeSchema
  \/ ApplyValidateAuth
  \/ ApplySafeParse

SpecExchange == InitExchange /\ [][NextExchange]_vars

(***************************************************************************)
(* arrayBufferToBase64 applied on its own: argument is the buffer.         *)
(***************************************************************************)
\* bytes whose sextets cover both ends of the alphabet, "+" and "/" included
SampleBytes == {0, 1, 62, 190, 251, 255}

ByteSequences == UNION { [1..n -> SampleBytes] : n \in 0..MaxBytes }

InitEncode ==
  /\ AsConstructed
  /\ argument \in ByteSequences
  /\ result = Pending

ApplyArrayBufferToBase64 ==
  /\ result = Pending
  /\ result' = [applied |-> "arrayBufferToBase64", outcome |-> arrayBufferToBase64(argument)]
  /\ UNCHANGED << flow, argument >>

\* the caller drops the text
DropEncoded ==
  /\ result # Pending
  /\ result' = Pending
  /\ UNCHANGED << flow, argument >>

NextEncode ==
  \/ ApplyArrayBufferToBase64
  \/ DropEncoded

SpecEncode == InitEncode /\ [][NextEncode]_vars

(***************************************************************************)
(* getChallenge applied on its own: argument is the pair of arrays the     *)
(* random source returns to its two generateNonce calls.                   *)
(***************************************************************************)
\* Uint32Array(4) values: small and large elements, two arrays that differ
\* in one element only, and the arrays of RandomArrays
ChallengeRandoms ==
  { << first, second, 8, last >> :
      first \in {0, 7, 2147483647}, second \in {1, 10}, last \in {2, 65536} }
    \cup RandomArrays

InitChallenge ==
  /\ AsConstructed
  /\ argument \in ChallengeRandoms \X ChallengeRandoms
  /\ result = Pending

ApplyGetChallenge ==
  /\ result = Pending
  /\ result' = [applied |-> "getChallenge",
                outcome |-> getChallenge(argument[1], argument[2])]
  /\ UNCHANGED << flow, argument >>

\* the caller drops the Challenge
DropChallenge ==
  /\ result # Pending
  /\ result' = Pending
  /\ UNCHANGED << flow, argument >>

NextChallenge ==
  \/ ApplyGetChallenge
  \/ DropChallenge

SpecChallenge == InitChallenge /\ [][NextChallenge]_vars

(***************************************************************************)
(* Vocabulary of the properties.                                           *)
(***************************************************************************)
\* redirectToLogin invocation i triggers the navigation in this step
Navigates(i) == login[i].pc = "stored" /\ login'[i].pc = "done"

\* handleCallback is invoked in slot j in this step
Invoked(j) == callback[j].pc = "idle" /\ callback'[j].pc # "idle"

\* what handleCallback reads from the page it runs on
PageQuery == URLSearchParamsParse(LocationSearch(location.href))
PageCode == URLSearchParamsGet(PageQuery, Str_code)
PageState == URLSearchParamsGet(PageQuery, Str_state)

(***************************************************************************)
(* C1: in every redirectToLogin, the write of codeVerifier under state is  *)
(* complete strictly before the navigation is triggered: while the         *)
(* invocation is between the write and the navigation, and in the step     *)
(* that navigates, before it as after it, the store holds codeVerifier     *)
(* under state; and nothing is navigated to before the write.              *)
(***************************************************************************)
C1_PersistBeforeNavigation ==
  [][\A i \in Slots :
       /\ Navigates(i) =>
            /\ getItem(sessionStorage, login[i].challenge.state)
                 = login[i].challenge.codeVerifier
            /\ getItem(sessionStorage', login[i].challenge.state)
                 = login[i].challenge.codeVerifier
       /\ (login[i].pc = "getChallenge" /\ login'[i].pc # "getChallenge") =>
            location' = location
    ]_vars

\* a redirectToLogin has navigated and the entry of its attempt is in the store
C1_Witness ==
  /\ location.by = "redirectToLogin"
  /\ \E i \in Slots : login[i].pc = "done" /\ login[i].outcome = Returned(JUndefined)
  /\ URLSearchParamsGet(PageQuery, Str_state) \in DOMAIN sessionStorage

(***************************************************************************)
(* C2: when redirectToLogin completes, a lookup in the session store by    *)
(* the state of its Challenge yields exactly the codeVerifier of the same  *)
(* Challenge.                                                              *)
(***************************************************************************)
C2_LookupYieldsVerifier ==
  [][\A i \in Slots :
       (login[i].pc # "done" /\ login'[i].pc = "done"
          /\ login'[i].outcome.status = "returned") =>
         /\ login[i].challenge \in Challenges
         /\ getItem(sessionStorage', login[i].challenge.state)
              = login[i].challenge.codeVerifier
    ]_vars

\* a completed redirectToLogin whose state and codeVerifier differ, with the
\* verifier found under the state of the URL it navigated to
C2_Witness ==
  /\ location.by = "redirectToLogin"
  /\ \E i \in Slots : login[i].pc = "done" /\ login[i].outcome = Returned(JUndefined)
  /\ \E c \in Challenges :
       /\ c.state # c.codeVerifier
       /\ c.state = PageState
       /\ getItem(sessionStorage, c.state) = c.codeVerifier

(***************************************************************************)
(* C3: the stored verifier is single-use.  A handleCallback that reads the *)
(* verifier stored under state s leaves the store without an entry for s;  *)
(* an entry appears in the store only by the write of a redirectToLogin;   *)
(* and a handleCallback carrying a code and an s for which the store has   *)
(* no entry fails with MissingVerifierError and issues no token request.   *)
(***************************************************************************)
C3_SingleUse ==
  [][/\ \A j \in Slots :
          (Invoked(j) /\ ~Falsy(PageCode) /\ ~Falsy(PageState)) =>
            /\ PageState \in DOMAIN sessionStorage =>
                 PageState \notin DOMAIN sessionStorage'
            /\ PageState \notin DOMAIN sessionStorage =>
                 /\ callback'[j].pc = "done"
                 /\ callback'[j].outcome = Threw(MissingVerifierError)
                 /\ callback'[j].requests = << >>
     /\ \A s \in DOMAIN sessionStorage' :
          (s \notin DOMAIN sessionStorage \/ sessionStorage'[s] # sessionStorage[s]) =>
            \E i \in Slots :
              /\ login[i].pc = "getChallenge"
              /\ login'[i].pc = "stored"
              /\ login'[i].challenge.state = s
    ]_vars

\* the data of the token request in flight in slot j is built from verifier v
CarriesVerifier(j, v) ==
  /\ callback[j].pc = "fetch"
  /\ Contains(callback[j].requests[1].body, Str_code_verifier \o << "=" >> \o v)

\* a replay: one handleCallback got the verifier stored under the state of the
\* page and has its token request in flight, and another one, on the same
\* page, failed with MissingVerifierError
C3_Witness ==
  /\ location.by = "idp"
  /\ ~Falsy(PageCode) /\ ~Falsy(PageState)
  /\ PageState \notin DOMAIN sessionStorage
  /\ \E j1, j2 \in Slots :
       /\ \E c \in Challenges : c.state = PageState /\ CarriesVerifier(j1, c.codeVerifier)
       /\ callback[j2].pc = "done"
       /\ callback[j2].outcome = Threw(MissingVerifierError)

(***************************************************************************)
(* C4: a handleCallback that gets as far as reading the store under state  *)
(* leaves no entry under state, whether or not a verifier was found, and   *)
(* no later step of the invocation (the answer of the token endpoint, its  *)
(* failure, the validation) changes the store, whatever the outcome.       *)
(***************************************************************************)
C4_RemovedUnconditionally ==
  [][\A j \in Slots :
       /\ (Invoked(j) /\ callback'[j].outcome # Threw(MissingParameterError)) =>
            getItem(sessionStorage', PageState) = null
       /\ (callback[j].pc \in {"fetch", "json"} /\ callback'[j] # callback[j]) =>
            sessionStorage' = sessionStorage
    ]_vars

\* the exchange failed and the verifier of the page's state is gone
C4_Witness ==
  /\ location.by = "idp"
  /\ ~Falsy(PageCode) /\ ~Falsy(PageState)
  /\ PageState \notin DOMAIN sessionStorage
  /\ \E j \in Slots :
       /\ callback[j].pc = "done"
       /\ callback[j].outcome.status = "threw"
       /\ callback[j].outcome.value.message[1] = "Error exchanging code: "

(***************************************************************************)
(* C5: every token request of handleCallback is issued in the step that    *)
(* invokes it, is a POST to {idpUrl}/oauth2/token and has the body         *)
(* grant_type=authorization_code&client_id=..&code=..&code_verifier=..     *)
(* &redirect_uri=.. with the code parameter of the page's URL, the value   *)
(* that was stored under the state parameter of the page's URL and the     *)
(* caller's client_id and redirect_uri; and on a success answer of the     *)
(* documented shape handleCallback returns the body of the answer.         *)
(***************************************************************************)
C5_DocumentedBody(params, code, codeVerifier) ==
  Str_grant_type \o << "=" >> \o Str_authorization_code
    \o << "&" >> \o Str_client_id \o << "=" >> \o params.clientId
    \o << "&" >> \o Str_code \o << "=" >> \o code
    \o << "&" >> \o Str_code_verifier \o << "=" >> \o codeVerifier
    \o << "&" >> \o Str_redirect_uri \o << "=" >> \o params.redirectUri

C5_ExchangeRequestAndResult ==
  [][\A j \in Slots :
       /\ (callback'[j].requests # << >> /\ callback'[j].requests # callback[j].requests) =>
            /\ Invoked(j)
            /\ Len(callback'[j].requests) = 1
            /\ PageState \in DOMAIN sessionStorage
            /\ \E params \in CallbackParams :
                 /\ callback'[j].requests[1].url = params.idpUrl \o Str_token_path
                 /\ callback'[j].requests[1].method = "POST"
                 /\ callback'[j].requests[1].body =
                      C5_DocumentedBody(params, PageCode, sessionStorage[PageState])
       /\ (callback[j].pc = "json" /\ callback'[j].pc = "done"
             /\ callback[j].res.ok /\ callback[j].res.body = AuthBody) =>
            callback'[j].outcome = Returned(AuthBody.value)
    ]_vars

\* a handleCallback returned the Auth the token endpoint answered with
C5_Witness ==
  \E j \in Slots :
    /\ callback[j].pc = "done"
    /\ callback[j].outcome = Returned(AuthBody.value)

(***************************************************************************)
(* C6: the URL redirectToLogin navigates to carries response_type=code,    *)
(* the scope, the client_id, the redirect_uri, code_challenge_method=S256, *)
(* a state parameter equal to the key under which the verifier was stored  *)
(* and a code_challenge equal to encode(sha256(v)), v being the verifier   *)
(* stored under that key.                                                  *)
(***************************************************************************)
C6_AuthorizationUrl ==
  [][\A i \in Slots :
       Navigates(i) =>
         \A query \in {URLSearchParamsParse(LocationSearch(location'.href))} :
         LET Param(name) == URLSearchParamsGet(query, name)
         IN  /\ location'.by = "redirectToLogin"
             /\ Param(Str_response_type) = Str_code
             /\ Param(Str_scope) = Default(login[i].params.scope, Str_openid)
             /\ Param(Str_client_id) = login[i].params.clientId
             /\ Param(Str_redirect_uri) = login[i].params.redirectUri
             /\ Param(Str_code_challenge_method) = Str_S256
             /\ Param(Str_state) = login[i].challenge.state
             /\ Param(Str_state) \in DOMAIN sessionStorage'
             /\ Param(Str_code_challenge) =
                  arrayBufferToBase64(sha256(sessionStorage'[Param(Str_state)]))
    ]_vars

\* the browser is at an authorization URL whose code_challenge is derived from
\* the verifier stored under its state
C6_Witness ==
  /\ location.by = "redirectToLogin"
  /\ PageState \in DOMAIN sessionStorage
  /\ URLSearchParamsGet(PageQuery, Str_code_challenge) =
       arrayBufferToBase64(sha256(sessionStorage[PageState]))
  /\ URLSearchParamsGet(PageQuery, Str_scope) \in Scopes

(***************************************************************************)
(* C7: the codeVerifier is sent only at token-exchange time.  The URL a    *)
(* redirectToLogin navigates to does not contain the codeVerifier of its   *)
(* Challenge (unless the random source made state and codeVerifier the     *)
(* same string); the URL of redirectToLogout contains no codeVerifier at   *)
(* all; the body of the token request does contain the verifier read from  *)
(* the store, and goes to the token endpoint.                              *)
(***************************************************************************)
C7_VerifierOnlyInTokenRequest ==
  [][/\ \A i \in Slots :
          (Navigates(i) /\ login[i].challenge.state # login[i].challenge.codeVerifier) =>
            ~Contains(location'.href, login[i].challenge.codeVerifier)
     /\ location'.by = "redirectToLogout" =>
          \A c \in Challenges : ~Contains(location'.href, c.codeVerifier)
     /\ \A j \in Slots :
          (Invoked(j) /\ callback'[j].pc = "fetch") =>
            /\ Contains(callback'[j].requests[1].body,
                        Str_code_verifier \o << "=" >> \o sessionStorage[PageState])
            /\ \E idpUrl \in IdpUrls :
                 callback'[j].requests[1].url = idpUrl \o Str_token_path
    ]_vars

\* the browser is at the authorization URL of an attempt whose verifier is in
\* the store and differs from its state, and the URL does not contain it
C7_Witness ==
  /\ location.by = "redirectToLogin"
  /\ PageState \in DOMAIN sessionStorage
  /\ sessionStorage[PageState] # PageState
  /\ ~Contains(location.href, sessionStorage[PageState])

(***************************************************************************)
(* C8: handleCallback fails with MissingParameterError whenever the query  *)
(* string of the page lacks code or lacks state.                           *)
(***************************************************************************)
C8_MissingParameter ==
  [][\A j \in Slots :
       (Invoked(j) /\ (PageCode = null \/ PageState = null)) =>
         /\ callback'[j].pc = "done"
         /\ callback'[j].outcome = Threw(MissingParameterError)
    ]_vars

\* the page carries a state with a stored verifier but no code, and a
\* handleCallback failed with MissingParameterError
C8_Witness ==
  /\ location.by = "idp"
  /\ PageCode = null
  /\ PageState \in DOMAIN sessionStorage
  /\ \E j \in Slots :
       callback[j].pc = "done" /\ callback[j].outcome = Threw(MissingParameterError)

(***************************************************************************)
(* C9 as stated: handleCallback with code and state both present fails     *)
(* with MissingVerifierError whenever no verifier is stored under that     *)
(* state, and issues no token request.                                     *)
(***************************************************************************)
C9_Original ==
  [][\A j \in Slots :
       (Invoked(j) /\ PageCode # null /\ PageState # null
          /\ getItem(sessionStorage, PageState) = null) =>
         /\ callback'[j].outcome = Threw(MissingVerifierError)
         /\ callback'[j].requests = << >>
    ]_vars

(***************************************************************************)
(* C9 amended: handleCallback with code and state both present and not     *)
(* empty fails with MissingVerifierError whenever no verifier is stored    *)
(* under that state; it issues no token request and the store is as it     *)
(* was.                                                                    *)
(***************************************************************************)
C9_MissingVerifier ==
  [][\A j \in Slots :
       (Invoked(j) /\ PageCode \notin {null, << >>} /\ PageState \notin {null, << >>}
          /\ getItem(sessionStorage, PageState) = null) =>
         /\ callback'[j].outcome = Threw(MissingVerifierError)
         /\ callback'[j].pc = "done"
         /\ callback'[j].requests = << >>
         /\ sessionStorage' = sessionStorage
    ]_vars

\* nothing is stored, the page carries a code and a state, and a
\* handleCallback failed with MissingVerifierError
C9_Witness ==
  /\ location.by = "idp"
  /\ PageCode \notin {null, << >>}
  /\ PageState \notin {null, << >>}
  /\ DOMAIN sessionStorage = {}
  /\ \E j \in Slots :
       callback[j].pc = "done" /\ callback[j].outcome = Threw(MissingVerifierError)

(***************************************************************************)
(* C10 as stated: whenever the token endpoint answers with a non-success   *)
(* status, or the request cannot be completed, exchangeCode (and           *)
(* handleCallback through it) fails with TransportError, and for a         *)
(* non-success answer the message of the error includes the serialized     *)
(* body of the answer.                                                     *)
(***************************************************************************)
\* the transport failures among the errors the code lets out: the rejection
\* of fetch and the error exchangeCode throws for a non-success answer
IsTransportError(error) ==
  \/ error.name = "TypeError"
  \/ error.message[1] = "Error exchanging code: "

C10_TransportError ==
  [][\A j \in Slots :
       /\ (callback[j].pc = "fetch" /\ callback'[j].pc = "done") =>
            /\ callback'[j].outcome.status = "threw"
            /\ IsTransportError(callback'[j].outcome.value)
       /\ (callback[j].pc = "json" /\ callback'[j].pc = "done" /\ ~callback[j].res.ok) =>
            /\ callback'[j].outcome.status = "threw"
            /\ IsTransportError(callback'[j].outcome.value)
            /\ Len(callback'[j].outcome.value.message) = 2
            /\ callback'[j].outcome.value.message[2] = callback[j].res.body
    ]_vars

(***************************************************************************)
(* C11: exchangeCode (and handleCallback, which returns what exchangeCode  *)
(* returns) returns a value only when the token endpoint answered with a   *)
(* success status and the body passed validation; every returned value has *)
(* access_token, id_token and refresh_token of type string, expires_in of  *)
(* type number and token_type exactly "Bearer".                            *)
(***************************************************************************)
\* the documented Auth shape
IsAuth(v) ==
  /\ v.kind = "object"
  /\ {"access_token", "expires_in", "id_token", "refresh_token", "token_type"}
       \subseteq DOMAIN v.fields
  /\ v.fields["access_token"].kind = "string"
  /\ v.fields["id_token"].kind = "string"
  /\ v.fields["refresh_token"].kind = "string"
  /\ v.fields["expires_in"].kind = "number"
  /\ v.fields["token_type"] = JString("Bearer")

ErrorKind(error) == error.name

\* what the taxonomy calls the failure exchangeCode ends in for an answer
FailureClass(res) ==
  IF ~res.ok THEN "TransportError"
  ELSE IF ~res.body.json \/ validateAuth(res.body.value).status = "threw" THEN "SchemaError"
  ELSE "none"

C12_DistinctErrorKinds ==
  (result # Pending /\ result.applied = "exchangeCode"
     /\ result.outcome.status = "threw") =>
       /\ ErrorKind(MissingParameterError) # ErrorKind(MissingVerifierError)
       /\ ErrorKind(result.outcome.value) \notin
            {ErrorKind(MissingParameterError), ErrorKind(MissingVerifierError)}
       /\ \A other \in TokenResponses :
            FailureClass(other) \notin {FailureClass(argument), "none"} =>
              ErrorKind(ExchangeSettled(other).value) # ErrorKind(result.outcome.value)

(***************************************************************************)
(* C13: validation fails with SchemaError for every input that is not an   *)
(* object, or whose access_token, id_token or refresh_token is not a       *)
(* string, or whose expires_in is not a number (the string "60" is         *)
(* rejected, not coerced), or whose token_type is present and not exactly  *)
(* "Bearer".  Checked for validateAuth and for authSchema.safeParse.       *)
(***************************************************************************)
\* the inputs the sentence lists
NotAnObject(raw) == raw.kind # "object"
MustBeRejected(raw) ==
  \/ NotAnObject(raw)
  \/ \E key \in {"access_token", "id_token", "refresh_token"} : Prop(raw, key).kind # "string"
  \/ Prop(raw, "expires_in").kind # "number"
  \/ Prop(raw, "token_type") \notin {JUndefined, JString("Bearer")}

\* the errors of validateAuth
SchemaErrors ==
  { Error("Error", << text >>) :
      text \in {"Input must be a non-null object", "access_token must be a string",
                "expires_in must be a number", "id_token must be a string",
                "refresh_token must be a string", "token_type must be 'Bearer'"} }

AuthFieldsOf(raw) ==
  JObject([k \in {"access_token", "expires_in", "id_token", "refresh_token", "token_type"}
             |-> raw.fields[k]])

C15_FailureIsTerminal ==
  [][\A j \in Slots :
       (callback[j].pc = "json" /\ callback'[j].pc = "done"
          /\ callback'[j].outcome.status = "returned") =>
         ~callback[j].afterFailure
    ]_vars

(***************************************************************************)
(* C16: login attempts whose states are distinct do not collide, whatever  *)
(* the interleaving.  A step changes the entry under a key only if it is   *)
(* the write of a redirectToLogin whose state is that key or the lookup of *)
(* a handleCallback on a page whose state is that key; the write puts the  *)
(* attempt's own codeVerifier there, and the token request of              *)
(* handleCallback carries the verifier found under the state of its page.  *)
(***************************************************************************)
\* redirectToLogin invocation i writes to the store in this step
Persists(i) == login[i].pc = "getChallenge" /\ login'[i].pc = "stored"

C16_AttemptsDoNotCollide ==
  [][/\ \A key \in DOMAIN sessionStorage \cup DOMAIN sessionStorage' :
          getItem(sessionStorage', key) # getItem(sessionStorage, key) =>
            \/ \E i \in Slots : Persists(i) /\ login'[i].challenge.state = key
            \/ \E j \in Slots : Invoked(j) /\ PageState = key
     /\ \A i \in Slots :
          Persists(i) =>
            getItem(sessionStorage', login'[i].challenge.state)
              = login'[i].challenge.codeVerifier
     /\ \A j \in Slots :
          (Invoked(j) /\ callback'[j].requests # << >>) =>
            \E params \in CallbackParams :
              callback'[j].requests
                = << TokenRequest(PageCode, sessionStorage[PageState], params.idpUrl,
                                  params.clientId, params.redirectUri) >>
    ]_vars

\* one attempt has been consumed, its token request is in flight with its
\* verifier, and the verifier of another attempt is still in the store
C16_Witness ==
  /\ location.by = "idp"
  /\ PageState \notin DOMAIN sessionStorage
  /\ \E key \in DOMAIN sessionStorage, j \in Slots :
       /\ key # PageState
       /\ callback[j].pc = "fetch"
       /\ ~CarriesVerifier(j, sessionStorage[key])
       /\ CarriesVerifier(j, key)

(***************************************************************************)
(* C17: if challenge generation fails inside redirectToLogin, the error    *)
(* propagates to the caller and neither a storage write nor a navigation   *)
(* has occurred: no step of the invocation, from its call to its failure,  *)
(* changes the store or the location.                                      *)
(***************************************************************************)
C17_ChallengeFailurePropagates ==
  [][\A i \in Slots :
       /\ (login[i].pc = "idle" /\ login'[i].pc = "getChallenge") =>
            /\ sessionStorage' = sessionStorage
            /\ location' = location
       /\ (login[i].pc = "getChallenge" /\ login'[i].pc = "done") =>
            /\ login'[i].outcome.status = "threw"
            /\ login'[i].outcome.value.name = "OperationError"
            /\ sessionStorage' = sessionStorage
            /\ location' = location
       /\ (login'[i].pc = "done" /\ login'[i].outcome.status = "threw") =>
            login[i].pc \in {"getChallenge", "done"}
    ]_vars

\* a redirectToLogin has failed with the error of the collaborator, the
\* store is empty and the browser is where it started
C17_Witness ==
  /\ \E i \in Slots :
       /\ login[i].pc = "done"
       /\ login[i].outcome = Threw(Error("OperationError", << "digest failed" >>))
  /\ sessionStorage = << >>
  /\ location = [href |-> HomePage, by |-> "user"]

(***************************************************************************)
(* C18: each exchangeCode issues exactly one POST to {idpUrl}/oauth2/token *)
(* and never retries.  A request is issued only in the step in which       *)
(* handleCallback is invoked, and then exactly one; when the exchange      *)
(* fails the failure is the outcome of the invocation, and no request is   *)
(* issued in that step or by that invocation afterwards.                   *)
(***************************************************************************)
\* the requests invocation j issues in this step
Issued(j) ==
  IF callback'[j].requests = callback[j].requests THEN << >>
  ELSE SubSeq(callback'[j].requests,
              IF Len(callback'[j].requests) > Len(callback[j].requests)
                THEN Len(callback[j].requests) + 1 ELSE 1,
              Len(callback'[j].requests))

C18_OnePostNoRetry ==
  [][\A j \in Slots :
       /\ Issued(j) # << >> =>
            /\ Invoked(j)
            /\ Len(Issued(j)) = 1
            /\ Issued(j)[1].method = "POST"
            /\ \E idpUrl \in IdpUrls : Issued(j)[1].url = idpUrl \o Str_token_path
       /\ (Invoked(j) /\ callback'[j].pc = "fetch") => Len(Issued(j)) = 1
       /\ (callback[j].pc \in {"fetch", "json"} /\ callback'[j] # callback[j]) =>
            /\ Issued(j) = << >>
            /\ callback'[j].pc \in {"json", "done"}
            /\ callback'[j].pc = "done" => callback'[j].outcome # Pending
       /\ callback[j].pc = "done" => callback'[j].pc \in {"done", "idle"}
    ]_vars

\* an exchange has failed on a rejected fetch; the failure is the outcome
\* and no request is in flight
C18_Witness ==
  \E j \in Slots :
    /\ callback[j].pc = "done"
    /\ callback[j].outcome = Threw(Error("TypeError", << "Failed to fetch" >>))
    /\ callback[j].requests = << >>

(***************************************************************************)
(* C19: redirectToLogout has no storage interaction: it leaves the session *)
(* store unchanged, so the verifiers of pending login attempts survive it, *)
(* and only navigates to {idpUrl}{path}?client_id=...&logout_uri=..., the  *)
(* path being /logout when none is given.                                  *)
(***************************************************************************)
C19_LogoutLeavesStore ==
  [][(location'.by = "redirectToLogout" /\ location' # location) =>
       /\ sessionStorage' = sessionStorage
       /\ login' = login
       /\ callback' = callback
       /\ \E params \in LogoutParams :
            location'.href =
              params.idpUrl
                \o (IF params.path = null THEN << "/", "l", "o", "g", "o", "u", "t" >>
                    ELSE params.path)
                \o << "?", "c", "l", "i", "e", "n", "t", "_", "i", "d", "=" >>
                \o params.clientId
                \o << "&", "l", "o", "g", "o", "u", "t", "_", "u", "r", "i", "=" >>
                \o params.logoutUri
    ]_vars

\* the browser is at the logout URL with the caller's path and the verifier
\* of a pending attempt is still in the store
C19_Witness ==
  /\ location.by = "redirectToLogout"
  /\ Contains(location.href, << "/", "b", "y", "e", "?" >>)
  /\ DOMAIN sessionStorage # {}

C21_EncodeRoundTrip ==
  result # Pending =>
    /\ \A n \in DOMAIN result.outcome : result.outcome[n] \notin {"+", "/", "="}
    /\ Len(result.outcome) = (Len(argument) * 4 + 2) \div 3
    /\ base64urlDecode(result.outcome) = argument

\* a buffer of two bytes whose standard encoding has "+", "/" and "=" was
\* encoded to a text with "-" and "_"
C21_Witness ==
  /\ result # Pending
  /\ result.applied = "arrayBufferToBase64"
  /\ argument = << 251, 255 >>
  /\ btoa(argument) = << "+", "/", "8", "=" >>
  /\ result.outcome = << "-", "_", "8" >>

(***************************************************************************)
(* C22: two handleCallback invocations for the same state that overlap in  *)
(* time cannot both obtain the verifier.  When handleCallback is invoked   *)
(* on a page with a code while another invocation for the same state is    *)
(* still in its exchange, having obtained the verifier of the attempt (no  *)
(* redirectToLogin has stored under that state since), the new invocation  *)
(* fails with MissingVerifierError and issues no token request; and the    *)
(* invocation that obtains the verifier leaves no entry under the state in *)
(* the same step.                                                          *)
(***************************************************************************)
\* invocation k is in its exchange for the attempt with this state
Exchanging(k, state) ==
  callback[k].pc \in {"fetch", "json"} /\ callback[k].attempt = state

C22_OverlappingCallbacks ==
  [][\A j \in Slots :
       /\ (Invoked(j) /\ PageCode \notin {null, << >>}
             /\ PageState \in audit.consumed
             /\ \E k \in Slots \ {j} : Exchanging(k, PageState)) =>
            /\ callback'[j].pc = "done"
            /\ callback'[j].outcome = Threw(MissingVerifierError)
            /\ callback'[j].requests = << >>
            /\ \A k \in Slots \ {j} : callback'[k] = callback[k]
       /\ (Invoked(j) /\ callback'[j].requests # << >>) =>
            /\ PageState \notin DOMAIN sessionStorage'
            /\ PageState \in audit'.consumed
    ]_vars

\* one invocation is in its exchange for the attempt of the page and another
\* one, invoked meanwhile, has failed with MissingVerifierError
C22_Witness ==
  /\ location.by = "idp"
  /\ PageState \in audit.consumed
  /\ \E j \in Slots, k \in Slots :
       /\ j # k
       /\ Exchanging(k, PageState)
       /\ callback[j].pc = "done"
       /\ callback[j].outcome = Threw(MissingVerifierError)

(***************************************************************************)
(* C23: when handleCallback fails with MissingParameterError the session   *)
(* store is exactly as it was before the call, so an entry stored under a  *)
(* state that is present in the URL is still there, and the invocation has *)
(* issued no token request.                                                *)
(***************************************************************************)
C23_MissingParameterLeavesStore ==
  [][\A j \in Slots :
       (Invoked(j) /\ callback'[j].outcome = Threw(MissingParameterError)) =>
         /\ sessionStorage' = sessionStorage
         /\ getItem(sessionStorage', PageState) = getItem(sessionStorage, PageState)
         /\ callback'[j].requests = << >>
         /\ callback'[j].pc = "done"
         /\ \A k \in Slots : callback'[k].requests \in {<< >>, callback[k].requests}
    ]_vars

\* handleCallback has failed with MissingParameterError on a page whose URL
\* carries a state but no code, and the verifier stored under that state is
\* still in the session store
C23_Witness ==
  /\ PageState \notin {null, << >>}
  /\ PageCode = null
  /\ getItem(sessionStorage, PageState) # null
  /\ \E j \in Slots :
       /\ callback[j].pc = "done"
       /\ callback[j].outcome = Threw(MissingParameterError)
       /\ callback[j].requests = << >>

(***************************************************************************)
(* C24: every handleCallback invocation eventually ends in exactly one of  *)
(* AUTHENTICATED, MISSING_PARAMS, MISSING_VERIFIER and EXCHANGE_FAILED,    *)
(* provided the token endpoint eventually answers or fails the request.    *)
(* An invocation moves forward only: from the call either straight to its  *)
(* end (MISSING_PARAMS, MISSING_VERIFIER) or into the exchange, from the   *)
(* exchange to its end (AUTHENTICATED, EXCHANGE_FAILED); its end does not  *)
(* change until the caller has it; and an invocation in the exchange       *)
(* always leads to an ended one.                                           *)
(***************************************************************************)
InExchange(j) == callback[j].pc \in {"fetch", "json"}
Ended(j) == callback[j].pc = "done"

AUTHENTICATED(c) ==
  c.pc = "done" /\ c.outcome.status = "returned" /\ IsAuth(c.outcome.value)
MISSING_PARAMS(c) == c.pc = "done" /\ c.outcome = Threw(MissingParameterError)
MISSING_VERIFIER(c) == c.pc = "done" /\ c.outcome = Threw(MissingVerifierError)
\* the error is one that exchangeCode ends with: the rejection of fetch or of
\* res.json(), the error for an answer that is not ok, or one of validateAuth
EXCHANGE_FAILED(c) ==
  /\ c.pc = "done"
  /\ c.outcome.status = "threw"
  /\ \/ ErrorKind(c.outcome.value) \in {"TypeError", "SyntaxError"}
     \/ \E res \in Responses : c.outcome = ExchangeSettled(res)

EndsOf(c) ==
  { e \in {"AUTHENTICATED", "MISSING_PARAMS", "MISSING_VERIFIER", "EXCHANGE_FAILED"} :
      \/ e = "AUTHENTICATED" /\ AUTHENTICATED(c)
      \/ e = "MISSING_PARAMS" /\ MISSING_PARAMS(c)
      \/ e = "MISSING_VERIFIER" /\ MISSING_VERIFIER(c)
      \/ e = "EXCHANGE_FAILED" /\ EXCHANGE_FAILED(c) }

ForwardSteps ==
  { << "idle", "fetch" >>, << "idle", "done" >>, << "fetch", "json" >>,
    << "fetch", "done" >>, << "json", "done" >>, << "done", "idle" >> }

C24_CallbackTerminates ==
  /\ [][\A j \in Slots :
          /\ callback'[j].pc # callback[j].pc =>
               << callback[j].pc, callback'[j].pc >> \in ForwardSteps
          /\ (callback[j].pc = "idle" /\ callback'[j].pc = "done") =>
               /\ Cardinality(EndsOf(callback'[j])) = 1
               /\ EndsOf(callback'[j]) \subseteq {"MISSING_PARAMS", "MISSING_VERIFIER"}
          /\ (InExchange(j) /\ callback'[j].pc = "done") =>
               /\ Cardinality(EndsOf(callback'[j])) = 1
               /\ EndsOf(callback'[j]) \subseteq {"AUTHENTICATED", "EXCHANGE_FAILED"}
          /\ (Ended(j) /\ callback'[j].pc = "done") => callback'[j] = callback[j]
       ]_vars
  /\ \A j \in Slots : InExchange(j) ~> Ended(j)

\* two invocations have ended, one of them authenticated and one with a
\* failed exchange
C24_Witness ==
  \E j \in Slots, k \in Slots :
    /\ EndsOf(callback[j]) = {"AUTHENTICATED"}
    /\ EndsOf(callback[k]) = {"EXCHANGE_FAILED"}

====
